---- MODULE Spec2Model ----
(***************************************************************************)
(* A model of the solana-mev-bot repository: the pricing functions of the *)
(* two protocols, the constant-product quote (calculate_swap_info), the    *)
(* transaction builders (get_swap_tx / new_signed_and_send, buy / sell)    *)
(* and the producer/consumer tasks around the tokio broadcast channel      *)
(* (listen_pumpfun_create, listen_rayidum_migration, Engine::run).         *)
(*                                                                         *)
(* Integer widths.  TLC's integers are 32-bit, so the Rust widths are      *)
(* scaled: u64 is a word of U64Bits bits and u128 a word of 2 * U64Bits    *)
(* bits.  The ratio (the wide type is twice the narrow one) is the one the *)
(* code relies on; every checked operation, every unwrap and every `as`    *)
(* cast is modelled at the scaled width.                                   *)
(***************************************************************************)
EXTENDS Integers, Sequences, FiniteSets, TLC

VARIABLES
    args,       \* pricing: the arguments of the call
    called,     \* pricing: the function applied to them ("none": not yet)
    result,     \* pricing: what the call returned
    req,        \* builders: the call (get_swap_tx, buy or sell) and the chain's answers
    built,      \* builders: what the call left behind (Built)
    kind,       \* tasks: which pair of tasks runs ("create", "migration", "engine")
    env,        \* tasks: the process environment (which variables are set)
    channel_size, \* tasks: the capacity asked of broadcast::channel
    chan,       \* tasks: every item the channel accepted, oldest first
    rx,         \* tasks: the subscribed Receiver (alive, next: items consumed or skipped)
    producer,   \* tasks: the sending task (pc, item in hand, tweets left, polls)
    consumer,   \* tasks: the receiving task (pc, item in hand, its outputs, how many are sunk)
    timeline,   \* tasks: the posts of the followed account, oldest first
    received,   \* history: the positions in chan that recv returned, in order, each with
                \*          the number of items published by then
    delivered   \* history: what the consumer handed to its sink, in order

pricing_vars == <<args, called, result>>
builder_vars == <<req, built>>
task_vars == <<kind, env, channel_size, chan, rx, producer, consumer, timeline,
               received, delivered>>
vars == <<args, called, result, req, built, kind, env, channel_size, chan, rx,
          producer, consumer, timeline, received, delivered>>

\* ------------------------------------------------------------------ bounds
U64Bits == 14
\* The block notifications a subscription delivers in a run.
MaxBlocks == 3
\* The largest capacity asked of broadcast::channel.
MaxChannelSize == 2
\* The iterations of the polling loop in a run, and the posts of the account.
MaxPolls == 2
MaxPosts == 1

U64_MAX == 2^U64Bits - 1
U128_MAX == 2^(2 * U64Bits) - 1

\* ------------------------------------------------------- Rust result values
\* A call ends in Ok(val), in Err(msg) returned to the caller, or in a panic
\* (an unwrap of None/Err, a failed assert, an out-of-range slice) that
\* unwinds the calling task.
Ok(v) == [tag |-> "Ok", val |-> v, msg |-> ""]
Err(m) == [tag |-> "Err", val |-> 0, msg |-> m]
Panic(m) == [tag |-> "Panic", val |-> 0, msg |-> m]
NoResult == [tag |-> "None", val |-> 0, msg |-> ""]

\* Option<uN>: None is -1.
None == 0 - 1

checked_add(a, b, max) == IF a + b <= max THEN a + b ELSE None
checked_sub(a, b) == IF a >= b THEN a - b ELSE None
\* a * b is only evaluated when it fits, so the model never overflows TLC.
checked_mul(a, b, max) == IF a = 0 \/ b <= max \div a THEN a * b ELSE None
checked_div(a, b) == IF b = 0 THEN None ELSE a \div b
\* `x as u64` of a u128: the low word.
as_u64(x) == x % (2^U64Bits)

\* ---------------------------------------------------------- pumpfun/math.rs
TenThousand == 10000

pumpfun_amount_with_slippage(amount, slippage_bps, is_buy) ==
    IF is_buy
    THEN LET s == checked_add(slippage_bps, TenThousand, U64_MAX) IN
         IF s = None THEN Panic("unwrap on None: checked_add") ELSE
         LET m == checked_mul(amount, s, U64_MAX) IN
         IF m = None THEN Panic("unwrap on None: checked_mul") ELSE
         Ok(checked_div(m, TenThousand))
    ELSE LET s == checked_sub(TenThousand, slippage_bps) IN
         IF s = None THEN Panic("unwrap on None: checked_sub") ELSE
         LET m == checked_mul(amount, s, U64_MAX) IN
         IF m = None THEN Panic("unwrap on None: checked_mul") ELSE
         Ok(checked_div(m, TenThousand))

\* ---------------------------------------------------------- raydium/math.rs
amount_with_slippage(amount, slippage_bps, up_towards) ==
    IF up_towards
    THEN LET s == checked_add(slippage_bps, TenThousand, U64_MAX) IN
         IF s = None THEN Panic("unwrap on None: checked_add") ELSE
         LET m == checked_mul(amount, s, U64_MAX) IN
         IF m = None THEN Panic("unwrap on None: checked_mul") ELSE
         Ok(checked_div(m, TenThousand))
    ELSE LET s == checked_sub(TenThousand, slippage_bps) IN
         IF s = None THEN Panic("unwrap on None: checked_sub") ELSE
         LET m == checked_mul(amount, s, U64_MAX) IN
         IF m = None THEN Panic("unwrap on None: checked_mul") ELSE
         Ok(checked_div(m, TenThousand))

\* The quote with the input added to the output reserve, for contrast.
swap_token_amount_base_in_wrong_side(amount_in, total_pc, total_coin, swap_direction) ==
    LET rout == IF swap_direction = "Buy" THEN total_pc ELSE total_coin
    IN  IF rout + amount_in = 0 THEN Panic("unwrap on None: checked_div")
        ELSE Ok((rout * amount_in) \div (rout + amount_in))

\* SwapDirection::Buy is "Buy" (coin in, pc out), SwapDirection::Sell is
\* "Sell" (pc in, coin out).  All operands are u128.
swap_token_amount_base_in(amount_in, total_pc, total_coin, swap_direction) ==
    LET rin == IF swap_direction = "Buy" THEN total_coin ELSE total_pc
        rout == IF swap_direction = "Buy" THEN total_pc ELSE total_coin
        denominator == checked_add(rin, amount_in, U128_MAX)
    IN  IF denominator = None THEN Panic("unwrap on None: checked_add") ELSE
        LET p == checked_mul(rout, amount_in, U128_MAX) IN
        IF p = None THEN Panic("unwrap on None: checked_mul") ELSE
        LET q == checked_div(p, denominator) IN
        IF q = None THEN Panic("unwrap on None: checked_div") ELSE Ok(q)

swap_token_amount_base_out(amount_out, total_pc, total_coin, swap_direction) ==
    LET rin == IF swap_direction = "Buy" THEN total_coin ELSE total_pc
        rout == IF swap_direction = "Buy" THEN total_pc ELSE total_coin
        denominator == checked_sub(rout, amount_out)
    IN  IF denominator = None THEN Panic("unwrap on None: checked_sub") ELSE
        LET p == checked_mul(rin, amount_out, U128_MAX) IN
        IF p = None THEN Panic("unwrap on None: checked_mul") ELSE
        LET q == checked_div(p, denominator) IN
        IF q = None THEN Panic("unwrap on None: checked_div") ELSE Ok(q)

\* The u128 value swap_exact_amount holds just before its `as u64` cast.
swap_exact_amount_u128(pc_vault_amount, coin_vault_amount, swap_fee_numerator, swap_fee_denominator, swap_direction, amount_specified, swap_base_in) ==
    IF swap_base_in
    THEN LET f == checked_mul(amount_specified, swap_fee_numerator, U128_MAX) IN
         IF f = None THEN Panic("unwrap on None: checked_mul") ELSE
         LET swap_fee == checked_div(f, swap_fee_denominator) IN
         IF swap_fee = None THEN Panic("unwrap on None: checked_div") ELSE
         LET swap_in_after_deduct_fee == checked_sub(amount_specified, swap_fee) IN
         IF swap_in_after_deduct_fee = None
         THEN Panic("unwrap on None: checked_sub")
         ELSE swap_token_amount_base_in(swap_in_after_deduct_fee, pc_vault_amount,
                                        coin_vault_amount, swap_direction)
    ELSE LET swap_in_before_add_fee ==
                 swap_token_amount_base_out(amount_specified, pc_vault_amount,
                                            coin_vault_amount, swap_direction)
         IN  IF swap_in_before_add_fee.tag # "Ok" THEN swap_in_before_add_fee ELSE
             LET m == checked_mul(swap_in_before_add_fee.val,
                                  swap_fee_denominator, U128_MAX) IN
             IF m = None THEN Panic("unwrap on None: checked_mul") ELSE
             LET d == checked_sub(swap_fee_denominator, swap_fee_numerator) IN
             IF d = None THEN Panic("unwrap on None: checked_sub") ELSE
             LET q == checked_div(m, d) IN
             IF q = None THEN Panic("unwrap on None: checked_div") ELSE Ok(q)

swap_exact_amount(pc_vault_amount, coin_vault_amount, swap_fee_numerator, swap_fee_denominator, swap_direction, amount_specified, swap_base_in) ==
    LET w == swap_exact_amount_u128(pc_vault_amount, coin_vault_amount,
                                    swap_fee_numerator, swap_fee_denominator,
                                    swap_direction, amount_specified, swap_base_in)
    IN  IF w.tag = "Ok" THEN Ok(as_u64(w.val)) ELSE w

\* a.checked_mul(b).unwrap().checked_div(c).unwrap() on u128 operands of the
\* code's own width, for c > 0 and a product that fits a u128: the quotient
\* floor(a * b / c), computed bit by bit of b as quotient and remainder of
\* the running product by c, so that no number larger than 2 * c is formed.
RECURSIVE wide_mul_div_qr(_, _, _)
wide_mul_div_qr(a, b, c) ==
    IF b = 0 THEN <<0, 0>> ELSE
    LET h == wide_mul_div_qr(a, b \div 2, c)
        r2 == 2 * h[2]
        d == IF r2 >= c THEN <<2 * h[1] + 1, r2 - c>> ELSE <<2 * h[1], r2>>
        r3 == d[2] + (a % c)
    IN  IF b % 2 = 0 THEN d
        ELSE IF r3 >= c THEN <<d[1] + (a \div c) + 1, r3 - c>>
        ELSE <<d[1] + (a \div c), r3>>

wide_mul_div(a, b, c) == wide_mul_div_qr(a, b, c)[1]

\* swap_exact_amount with swap_base_in on operands of the code's own width,
\* where no checked operation fails: the fee, the input after the fee, and
\* swap_token_amount_base_in on it.
swap_exact_in_wide(pc_vault_amount, coin_vault_amount, swap_fee_numerator, swap_fee_denominator, swap_direction, amount_specified) ==
    LET swap_fee == wide_mul_div(amount_specified, swap_fee_numerator,
                                 swap_fee_denominator)
        swap_in_after_deduct_fee == amount_specified - swap_fee
        rin == IF swap_direction = "Buy" THEN coin_vault_amount ELSE pc_vault_amount
        rout == IF swap_direction = "Buy" THEN pc_vault_amount ELSE coin_vault_amount
    IN  wide_mul_div(rout, swap_in_after_deduct_fee, rin + swap_in_after_deduct_fee)

swap_with_slippage(pc_vault_amount, coin_vault_amount, swap_fee_numerator, swap_fee_denominator, swap_direction, amount_specified, swap_base_in, slippage_bps) ==
    LET t == swap_exact_amount(pc_vault_amount, coin_vault_amount,
                               swap_fee_numerator, swap_fee_denominator,
                               swap_direction, amount_specified, swap_base_in)
    IN  IF t.tag # "Ok" THEN t
        ELSE amount_with_slippage(t.val, slippage_bps, ~swap_base_in)

\* Result<(u64, u64)>: the pair is (pc, coin).
TotalsErr(m) == [tag |-> "Err", val |-> 0, msg |-> m, pc |-> 0, coin |-> 0]

calc_total_without_take_pnl_no_orderbook(pc_amount, coin_amount, need_take_pnl_pc, need_take_pnl_coin) ==
    LET total_pc == checked_sub(pc_amount, need_take_pnl_pc) IN
    IF total_pc = None THEN TotalsErr("CheckedSubOverflow") ELSE
    LET total_coin == checked_sub(coin_amount, need_take_pnl_coin) IN
    IF total_coin = None THEN TotalsErr("CheckedSubOverflow") ELSE
    [tag |-> "Ok", val |-> 0, msg |-> "", pc |-> total_pc, coin |-> total_coin]

\* ----------------------------------------------------- raydium/structure.rs
\* AmmStatus::from_u64: the variant's name, or a panic (unreachable!()) for a
\* value outside 0..7.
AmmStatusName == <<"Uninitialized", "Initialized", "Disabled", "WithdrawOnly",
                   "LiquidityOnly", "OrderBookOnly", "SwapOnly", "WaitingTrade">>

from_u64(status) ==
    IF status \in 0..7 THEN AmmStatusName[status + 1] ELSE "unreachable"

swap_permission(s) == s \in {"Initialized", "SwapOnly", "WaitingTrade"}

orderbook_permission(s) == s \in {"Initialized", "OrderBookOnly"}

\* A fraction whose numerator may equal its denominator, for contrast.
validate_fraction_upto_one(numerator, denominator) ==
    IF numerator > denominator \/ denominator = 0
    THEN Err("InvalidFee") ELSE Ok(0)

validate_fraction(numerator, denominator) ==
    IF numerator >= denominator \/ denominator = 0
    THEN Err("InvalidFee") ELSE Ok(0)

\* Fees::validate.  fees: the four <<numerator, denominator>> pairs in the
\* order of the struct: min_separate, trade_fee, pnl, swap_fee.  Each `?`
\* returns the first Err.
RECURSIVE validate_from(_, _)
validate_from(fees, i) ==
    IF i > Len(fees) THEN Ok(0)
    ELSE LET r == validate_fraction(fees[i][1], fees[i][2])
         IN  IF r.tag # "Ok" THEN r ELSE validate_from(fees, i + 1)

validate(fees) == validate_from(fees, 1)

\* Fees::initialize: the fractions it sets.
initialize == <<<<5, 10000>>, <<25, 10000>>, <<12, 100>>, <<25, 10000>>>>

\* ------------------------------------------- raydium/math.rs: the quote
\* Result<AmmSwapInfoResult>: val is other_amount_threshold.
Quote(t, dir, imint, omint) ==
    [tag |-> "Ok", val |-> t, msg |-> "", swap_direction |-> dir,
     input_mint |-> imint, output_mint |-> omint]
QuoteFail(r) ==
    [tag |-> r.tag, val |-> 0, msg |-> r.msg, swap_direction |-> "none",
     input_mint |-> "none", output_mint |-> "none"]

\* amm: the AmmInfo fields the quote reads (status, need_take_pnl_pc,
\* need_take_pnl_coin, swap_fee_numerator, swap_fee_denominator,
\* coin_vault_mint, pc_vault_mint, nonce_ok: whether create_program_address
\* accepts the nonce).  rsps: what get_multiple_accounts answers ("ok",
\* "rpc_error", "missing": an account is None, "bad_data": Account::unpack
\* fails), with the vault balances and the mint of user_input_token.
calculate_swap_info(amm, rsps, amount_specified, slippage_bps, base_in) ==
    IF ~amm.nonce_ok THEN QuoteFail(Err("InvalidProgramAddress")) ELSE
    IF rsps.read = "rpc_error" THEN QuoteFail(Err("RpcError")) ELSE
    IF rsps.read = "missing" THEN QuoteFail(Panic("unwrap on None: account")) ELSE
    IF rsps.read = "bad_data" THEN QuoteFail(Panic("unwrap on Err: Account::unpack")) ELSE
    IF from_u64(amm.status) = "unreachable"
    THEN QuoteFail(Panic("unreachable: AmmStatus::from_u64")) ELSE
    IF orderbook_permission(from_u64(amm.status))
    THEN QuoteFail(Panic("assert_eq: orderbook_permission")) ELSE
    LET totals == calc_total_without_take_pnl_no_orderbook(
                      rsps.pc_amount, rsps.coin_amount,
                      amm.need_take_pnl_pc, amm.need_take_pnl_coin) IN
    IF totals.tag # "Ok" THEN QuoteFail(Panic("unwrap on Err: CheckedSubOverflow")) ELSE
    IF rsps.input_mint # amm.coin_vault_mint /\ rsps.input_mint # amm.pc_vault_mint
    THEN QuoteFail(Panic("input tokens not match pool vaults")) ELSE
    LET swap_direction ==
            IF rsps.input_mint = amm.coin_vault_mint THEN "Buy" ELSE "Sell"
        input_mint ==
            IF swap_direction = "Buy" THEN amm.coin_vault_mint ELSE amm.pc_vault_mint
        output_mint ==
            IF swap_direction = "Buy" THEN amm.pc_vault_mint ELSE amm.coin_vault_mint
        t == swap_with_slippage(totals.pc, totals.coin, amm.swap_fee_numerator,
                                amm.swap_fee_denominator, swap_direction,
                                amount_specified, base_in, slippage_bps)
    IN  IF t.tag # "Ok" THEN QuoteFail(t)
        ELSE Quote(t.val, swap_direction, input_mint, output_mint)

\* Plain `+` and `*` on u64 (no checked_ call): an overflow panics in a build
\* with overflow checks (debug) and wraps in a build without (release).
plain_add(a, b, overflow_checks) ==
    IF a + b <= U64_MAX THEN Ok(a + b)
    ELSE IF overflow_checks THEN Panic("attempt to add with overflow")
    ELSE Ok(as_u64(a + b))

plain_mul(a, b, overflow_checks) ==
    IF a * b <= U64_MAX THEN Ok(a * b)
    ELSE IF overflow_checks THEN Panic("attempt to multiply with overflow")
    ELSE Ok(as_u64(a * b))

\* ------------------------------------------------------------ instructions
\* One instruction of a transaction: op names the program call, a and b the
\* accounts that identify it, x and y its numeric arguments.
NoAccount == <<>>
Instr(op, a, b, x, y) == [op |-> op, a |-> a, b |-> b, x |-> x, y |-> y]

\* The wallet that pays and signs (payer.pubkey(), client.keypair().pubkey()).
Payer == "payer"
get_associated_token_address(owner, mint) == <<"ata", owner, mint>>
\* Pubkey::create_with_seed(owner, seed, spl_token::id()) of the random seed.
WsolPubkey == <<"wsol", "seed">>

native_mint == "native"
\* spl_token::native_mint::DECIMALS is 9; scaled with the word width.
NATIVE_DECIMALS == 2

\* spl_token::ui_amount_to_amount(ui, decimals) = (ui * 10^decimals) as u64,
\* a saturating float-to-integer cast.  A UI amount is given in hundredths.
ui_amount_to_amount(hundredths, decimals) ==
    LET v == (hundredths * 10^decimals) \div 100 IN
    IF v < 0 THEN 0 ELSE IF v > U64_MAX THEN U64_MAX ELSE v

\* ------------------------------------------------------------ raydium/tx.rs
UNIT_LIMIT == 200000
UNIT_PRICE == 20000

\* What a builder call leaves behind: its result, the instruction list it
\* assembled, the instruction list of the transaction it signed (<<>> when it
\* signed none) and the RPC calls it made with it.
Built(res, ixs, tx, sims, sends) ==
    [result |-> res, instructions |-> ixs, tx |-> tx,
     simulations |-> sims, submissions |-> sends]

\* fail: the RPC step that fails in this call ("none", "blockhash",
\* "simulate_rpc", "simulation_err", "send", ...).
new_signed_and_send(instructions, is_simulate, fail) ==
    LET ixs == <<Instr("SetComputeUnitLimit", NoAccount, NoAccount, UNIT_LIMIT, 0),
                 Instr("SetComputeUnitPrice", NoAccount, NoAccount, UNIT_PRICE, 0)>>
               \o instructions
    IN  IF fail = "blockhash" THEN Built(Err("RpcError"), ixs, <<>>, 0, 0) ELSE
        IF is_simulate
        THEN IF fail = "simulate_rpc" THEN Built(Err("RpcError"), ixs, ixs, 1, 0) ELSE
             IF fail = "simulation_err"
             THEN Built(Err("SimulationFailed"), ixs, ixs, 1, 0)
             ELSE Built(Ok(0), ixs, ixs, 1, 0)
        ELSE IF fail = "send" THEN Built(Err("RpcError"), ixs, ixs, 0, 1)
             ELSE Built(Ok(1), ixs, ixs, 0, 1)

\* ---------------------------------------------------------- raydium/swap.rs
\* amm_swap: swap_base_in(amount_in, minimum_amount_out) or
\* swap_base_out(max_amount_in, amount_out).
amm_swap(user_source, user_destination, amount_specified, other_amount_threshold, swap_base_in) ==
    IF swap_base_in
    THEN Instr("SwapBaseIn", user_source, user_destination,
               amount_specified, other_amount_threshold)
    ELSE Instr("SwapBaseOut", user_source, user_destination,
               other_amount_threshold, amount_specified)

\* The instruction list get_swap_tx hands to new_signed_and_send, once the
\* direction, the amount and the quote are known.
build_instructions(r, swap_direction, create_instruction, amount_specified, total_amount, other_amount_threshold) ==
    LET wsol == r.token_in = native_mint \/ r.token_out = native_mint
        in_ata == get_associated_token_address(Payer, r.token_in)
        out_ata == get_associated_token_address(Payer, r.token_out)
        final_in_ata == IF wsol /\ swap_direction = "Buy" THEN WsolPubkey ELSE in_ata
        final_out_ata == IF wsol /\ swap_direction = "Sell" THEN WsolPubkey ELSE out_ata
    IN  (IF wsol
         THEN <<Instr("CreateAccountWithSeed", WsolPubkey, NoAccount, total_amount, 0),
                Instr("InitializeAccount", WsolPubkey, <<native_mint>>, 0, 0)>>
         ELSE <<>>)
        \o create_instruction
        \o (IF amount_specified > 0
            THEN <<amm_swap(final_in_ata, final_out_ata, amount_specified,
                            other_amount_threshold, r.token_in = native_mint)>>
                 \o (IF wsol
                     THEN <<Instr("CloseAccount", WsolPubkey, NoAccount, 0, 0)>>
                     ELSE <<>>)
            ELSE <<>>)

Unbuilt(res) == Built(res, <<>>, <<>>, 0, 0)

\* client.get_account(address): Err when the RPC call fails ("ata") and when
\* the node has no account at the address.
get_account(exists, fail) ==
    IF fail = "ata" THEN Err("RpcError")
    ELSE IF ~exists THEN Err("AccountNotFound") ELSE Ok(0)

\* getter::get_account_info of an associated token account, which the token
\* program owns and whose mint is the requested one: every Err of get_account
\* becomes AccountNotFound.
get_account_info(exists, fail) ==
    IF get_account(exists, fail).tag = "Err" THEN Err("AccountNotFound") ELSE Ok(0)

\* r: the call's arguments (token_in, token_out, amount_in in hundredths,
\* slippage) and what the chain answers during it (amm: the pool's AmmInfo,
\* pc_amount, coin_amount: the vault balances, out_ata_exists, in_decimals,
\* rent, fail: the step that fails, overflow_checks: the build).
get_swap_tx(r) ==
    LET slippage_bps == plain_mul(r.slippage, 100, r.overflow_checks) IN
    IF slippage_bps.tag # "Ok" THEN Unbuilt(slippage_bps) ELSE
    IF r.fail = "pool_rpc" THEN Unbuilt(Err("RpcError")) ELSE
    IF r.fail = "pool_missing" THEN Unbuilt(Panic("unwrap on None: get_account")) ELSE
    IF r.fail = "pool_bad_data" THEN Unbuilt(Panic("bytemuck::from_bytes")) ELSE
    IF r.token_in = r.amm.coin_vault_mint /\ r.token_out # r.amm.pc_vault_mint
    THEN Unbuilt(Panic("assert_eq: token_out, pc_mint")) ELSE
    IF r.token_in # r.amm.coin_vault_mint /\ r.token_out # r.amm.coin_vault_mint
    THEN Unbuilt(Panic("assert_eq: token_out, coin_mint")) ELSE
    LET swap_direction == IF r.token_in = r.amm.coin_vault_mint THEN "Buy" ELSE "Sell"
        \* user_input_token is the pool's coin_vault (Buy) or pc_vault (Sell);
        \* the vault account's mint is the pool's mint of that side.
        user_input_mint == IF swap_direction = "Buy" THEN r.amm.coin_vault_mint
                           ELSE r.amm.pc_vault_mint
        swap_base_in == r.token_in = native_mint
        create_instruction ==
            IF swap_direction = "Buy" /\ get_account_info(r.out_ata_exists, r.fail).tag = "Err"
            THEN <<Instr("CreateAssociatedTokenAccount",
                         get_associated_token_address(Payer, r.token_out),
                         <<r.token_out>>, 0, 0)>>
            ELSE <<>>
    IN
    IF swap_direction = "Sell" /\ r.fail = "mint" THEN Unbuilt(Err("AccountNotFound")) ELSE
    LET amount_specified ==
            IF swap_direction = "Buy"
            THEN ui_amount_to_amount(r.amount_in, NATIVE_DECIMALS)
            ELSE ui_amount_to_amount(r.amount_in, r.in_decimals)
        rsps == [read |-> IF r.fail = "accounts_rpc" THEN "rpc_error" ELSE "ok",
                 pc_amount |-> r.pc_amount, coin_amount |-> r.coin_amount,
                 input_mint |-> user_input_mint]
        swap_info_result == calculate_swap_info(r.amm, rsps, amount_specified,
                                                slippage_bps.val, swap_base_in)
    IN
    IF swap_info_result.tag # "Ok"
    THEN Unbuilt([tag |-> swap_info_result.tag, val |-> 0, msg |-> swap_info_result.msg])
    ELSE
    LET wsol == r.token_in = native_mint \/ r.token_out = native_mint
        total_amount == IF r.token_in = native_mint
                        THEN plain_add(r.rent, amount_specified, r.overflow_checks)
                        ELSE Ok(r.rent)
    IN
    IF wsol /\ r.fail = "rent" THEN Unbuilt(Err("RpcError")) ELSE
    IF wsol /\ total_amount.tag # "Ok" THEN Unbuilt(total_amount) ELSE
    new_signed_and_send(
        build_instructions(r, swap_direction, create_instruction, amount_specified,
                          total_amount.val, swap_info_result.val),
        TRUE, r.fail)

\* ------------------------------------------------------ pumpfun/accounts.rs
\* BondingCurveAccount::get_buy_price and get_sell_price.  curve: the
\* snapshot (virtual_token_reserves, virtual_sol_reserves, complete).
get_buy_price(curve, amount) ==
    IF curve.complete THEN Err("ProtocolClosed") ELSE
    LET d == checked_add(curve.virtual_sol_reserves, amount, U128_MAX)
        p == checked_mul(curve.virtual_token_reserves, amount, U128_MAX)
    IN  IF d = None \/ p = None \/ checked_div(p, d) = None
        THEN Err("ArithmeticError")
        ELSE IF checked_div(p, d) > U64_MAX THEN Err("ArithmeticError")
        ELSE Ok(checked_div(p, d))

get_sell_price(curve, amount, fee_basis_points) ==
    IF curve.complete THEN Err("ProtocolClosed") ELSE
    LET d == checked_add(curve.virtual_token_reserves, amount, U128_MAX)
        p == checked_mul(curve.virtual_sol_reserves, amount, U128_MAX)
    IN  IF d = None \/ p = None \/ checked_div(p, d) = None
        THEN Err("ArithmeticError")
        ELSE LET raw == checked_div(p, d)
                 f == checked_mul(raw, fee_basis_points, U128_MAX)
             IN  IF f = None \/ raw > U64_MAX THEN Err("ArithmeticError")
                 ELSE IF checked_sub(raw, f \div TenThousand) = None
                 THEN Err("ArithmeticError")
                 ELSE Ok(raw - f \div TenThousand)

\* --------------------------------------------------- pumpfun/instructions.rs
BUY_INSTRUCTION_DISCRIMINATOR == 102
SELL_INSTRUCTION_DISCRIMINATOR == 51

\* AccountMeta::new(pubkey, is_signer) and AccountMeta::new_readonly.
AccountMeta_new(pubkey, is_signer) ==
    [pubkey |-> pubkey, is_signer |-> is_signer, is_writable |-> TRUE]
AccountMeta_new_readonly(pubkey, is_signer) ==
    [pubkey |-> pubkey, is_signer |-> is_signer, is_writable |-> FALSE]

\* utils.rs: the program-derived addresses of the curve and the global state.
get_bonding_curve_pda(mint) == <<"bonding-curve", mint>>
get_global_pda == <<"global">>

\* u64::serialize of borsh: the 8 bytes, least significant first.
RECURSIVE to_le_bytes(_, _)
to_le_bytes(v, n) == IF n = 0 THEN <<>> ELSE <<v % 256>> \o to_le_bytes(v \div 256, n - 1)
\* A struct of two u64 fields serializes as the fields in declaration order.
serialize(first, second) == to_le_bytes(first, 8) \o to_le_bytes(second, 8)

\* op, a (the mint), b (the payer's associated token account), x and y as in
\* Instr; program_id, accounts and data are the fields of the Instruction.
create_buy_instruction(mint, amount, max_sol_cost) ==
    LET bonding_curve == get_bonding_curve_pda(mint)
        accounts ==
            <<AccountMeta_new(get_global_pda, FALSE),
              AccountMeta_new("PUMPFUN_FEE_RECEIPT", FALSE),
              AccountMeta_new(mint, FALSE),
              AccountMeta_new(bonding_curve, FALSE),
              AccountMeta_new(get_associated_token_address(bonding_curve, mint), FALSE),
              AccountMeta_new(get_associated_token_address(Payer, mint), FALSE),
              AccountMeta_new(Payer, TRUE),
              AccountMeta_new_readonly("SYSTEM_PROGRAM", FALSE),
              AccountMeta_new_readonly("TOKEN_PROGRAM", FALSE),
              AccountMeta_new_readonly("RENT", FALSE),
              AccountMeta_new_readonly("EVENT_AUTHORITY", FALSE),
              AccountMeta_new_readonly("PUMPFUN", FALSE)>>
        data == <<BUY_INSTRUCTION_DISCRIMINATOR>> \o serialize(amount, max_sol_cost)
    IN  [op |-> "PumpBuy", a |-> <<mint>>, b |-> get_associated_token_address(Payer, mint),
         x |-> amount, y |-> max_sol_cost,
         program_id |-> "PUMPFUN", accounts |-> accounts, data |-> data]

\* A sell instruction whose account list has no signer.
create_sell_instruction_unsigned(mint, amount, min_sol_output) ==
    [create_buy_instruction(mint, amount, min_sol_output) EXCEPT
        !.op = "PumpSell", !.data[1] = SELL_INSTRUCTION_DISCRIMINATOR,
        !.accounts[7].is_signer = FALSE]

create_sell_instruction(mint, amount, min_sol_output) ==
    LET bonding_curve == get_bonding_curve_pda(mint)
        accounts ==
            <<AccountMeta_new(get_global_pda, FALSE),
              AccountMeta_new("PUMPFUN_FEE_RECEIPT", FALSE),
              AccountMeta_new(mint, FALSE),
              AccountMeta_new(bonding_curve, FALSE),
              AccountMeta_new(get_associated_token_address(bonding_curve, mint), FALSE),
              AccountMeta_new(get_associated_token_address(Payer, mint), FALSE),
              AccountMeta_new(Payer, TRUE),
              AccountMeta_new_readonly("SYSTEM_PROGRAM", FALSE),
              AccountMeta_new_readonly("TOKEN_PROGRAM", FALSE),
              AccountMeta_new_readonly("RENT", FALSE),
              AccountMeta_new_readonly("EVENT_AUTHORITY", FALSE),
              AccountMeta_new_readonly("PUMPFUN", FALSE)>>
        data == <<SELL_INSTRUCTION_DISCRIMINATOR>> \o serialize(amount, min_sol_output)
    IN  [op |-> "PumpSell", a |-> <<mint>>, b |-> get_associated_token_address(Payer, mint),
         x |-> amount, y |-> min_sol_output,
         program_id |-> "PUMPFUN", accounts |-> accounts, data |-> data]

\* ------------------------------------------------------ pumpfun/operation.rs
\* A tail that submits whatever the mode.
pump_sign_and_send_always_submits(instructions, is_simulate, fail) ==
    Built(Ok(1), instructions, instructions, IF is_simulate THEN 1 ELSE 0, 1)

\* The tail shared by buy and sell: blockhash, sign, then simulate or send.
pump_sign_and_send(instructions, is_simulate, fail) ==
    IF fail = "blockhash"
    THEN Built(Panic("unwrap on Err: get_latest_blockhash"), instructions, <<>>, 0, 0)
    ELSE
    IF is_simulate
    THEN IF fail = "simulate_rpc"
         THEN Built(Err("RpcError"), instructions, instructions, 1, 0) ELSE
         IF fail = "simulation_err"
         THEN Built(Err("SimulationFailed"), instructions, instructions, 1, 0)
         ELSE Built(Ok(0), instructions, instructions, 1, 0)
    ELSE IF fail = "send"
         THEN Built(Err("RpcError"), instructions, instructions, 0, 1)
         ELSE Built(Ok(1), instructions, instructions, 0, 1)

\* r: the call's arguments (mint, amount, slippage, is_simulate) and what the
\* chain answers during it (curve, fee_basis_points, ata_exists,
\* token_balance, fail, overflow_checks).
buy(r) ==
    IF r.fail = "curve" THEN Unbuilt(Err("SolanaClientError")) ELSE
    LET buy_amount == get_buy_price(r.curve, r.amount) IN
    IF buy_amount.tag # "Ok" THEN Unbuilt(Panic("unwrap on Err: get_buy_price")) ELSE
    LET slippage_bps == plain_mul(r.slippage, 100, r.overflow_checks) IN
    IF slippage_bps.tag # "Ok" THEN Unbuilt(slippage_bps) ELSE
    LET buy_amount_with_slippage ==
            pumpfun_amount_with_slippage(buy_amount.val, slippage_bps.val, TRUE) IN
    IF buy_amount_with_slippage.tag # "Ok" THEN Unbuilt(buy_amount_with_slippage) ELSE
    pump_sign_and_send(
        (IF get_account(r.ata_exists, r.fail).tag # "Err" THEN <<>>
         ELSE <<Instr("CreateAssociatedTokenAccount",
                      get_associated_token_address(Payer, r.mint), <<r.mint>>, 0, 0)>>)
        \o <<create_buy_instruction(r.mint, buy_amount.val,
                                    buy_amount_with_slippage.val)>>,
        r.is_simulate, r.fail)

sell(r) ==
    IF r.fail = "balance" THEN Unbuilt(Err("RpcError")) ELSE
    IF r.fail = "balance_none" THEN Unbuilt(Panic("unwrap on None: ui_amount")) ELSE
    IF r.token_balance < r.amount
    THEN Unbuilt(Panic("assert: token_balance_u64 >= amount_token")) ELSE
    IF r.fail = "curve" THEN Unbuilt(Err("SolanaClientError")) ELSE
    IF r.fail = "global" THEN Unbuilt(Err("SolanaClientError")) ELSE
    LET sol_output == get_sell_price(r.curve, r.amount, r.fee_basis_points) IN
    IF sol_output.tag # "Ok" THEN Unbuilt(Panic("unwrap on Err: get_sell_price")) ELSE
    LET slippage_bps == plain_mul(r.slippage, 100, r.overflow_checks) IN
    IF slippage_bps.tag # "Ok" THEN Unbuilt(slippage_bps) ELSE
    LET min_sol_output ==
            pumpfun_amount_with_slippage(sol_output.val, slippage_bps.val, FALSE) IN
    IF min_sol_output.tag # "Ok" THEN Unbuilt(min_sol_output) ELSE
    pump_sign_and_send(
        <<create_sell_instruction(r.mint, sol_output.val, min_sol_output.val)>>,
        r.is_simulate, r.fail)

\* ------------------------------------------------- monitor/token_create.rs
\* A block is [has_txs, txs]; a transaction is [decodes, keys, meta, logs,
\* ixs]: whether EncodedTransaction::decode gives Some, the number of static
\* account keys (key k is the key at index k), the status meta ("none",
\* "no_logs", "logs"), its log lines and its instructions; an instruction is
\* [program, data, accounts]: the program its program_id_index names, its data
\* bytes and its account indices.
\* CREATEDISCRIMINATOR, as the 8 little-endian bytes of the u64 (from_le_bytes
\* is one-to-one, so the u64s are equal exactly when the byte arrays are).
CREATEDISCRIMINATOR == <<24, 30, 200, 40, 5, 28, 7, 119>>
\* The three ("name", "string") fields of IX_DEF.
IX_DEF == <<"name", "symbol", "uri">>

u32_from_le_bytes(b) == b[1] + 256 * b[2] + 65536 * b[3] + 16777216 * b[4]

\* str::from_utf8 on the bytes the model feeds it: ASCII bytes are valid and
\* 0xFF, which no UTF-8 sequence contains, is not.
from_utf8_ok(bytes) == \A i \in DOMAIN bytes : bytes[i] < 128

Event(k, fields, keys) == [kind |-> k, fields |-> fields, keys |-> keys]
Decoded(tag, ev) == [tag |-> tag, ev |-> ev]
NoEvent == Event("none", <<>>, <<>>)

\* The loop over IX_DEF: n fields are left to read at the 0-based offset.
RECURSIVE read_fields(_, _, _, _)
read_fields(ix_data, offset, n, acc) ==
    IF n = 0 THEN [tag |-> "Ok", fields |-> acc] ELSE
    IF offset + 4 > Len(ix_data) THEN [tag |-> "Panic", fields |-> acc] ELSE
    LET length == u32_from_le_bytes(SubSeq(ix_data, offset + 1, offset + 4)) IN
    IF offset + 4 + length > Len(ix_data) THEN [tag |-> "Panic", fields |-> acc] ELSE
    LET value == SubSeq(ix_data, offset + 5, offset + 4 + length) IN
    IF ~from_utf8_ok(value) THEN [tag |-> "Err", fields |-> acc] ELSE
    read_fields(ix_data, offset + 4 + length, n - 1, Append(acc, value))

decode_create_instruction(ix_data, accounts) ==
    LET f == read_fields(ix_data, 8, Len(IX_DEF), <<>>) IN
    IF f.tag # "Ok" THEN Decoded(f.tag, NoEvent) ELSE
    IF Len(accounts) < 8 THEN Decoded("Panic", NoEvent) ELSE
    Decoded("Ok", Event("create", f.fields,
                        <<accounts[1], accounts[3], accounts[4], accounts[8]>>))

\* The body of the loop over a transaction's instructions: "Skip" when the
\* instruction is not a create instruction of the program.
create_instruction_step(tx, instruction) ==
    IF instruction.program # "pump" THEN Decoded("Skip", NoEvent) ELSE
    IF Len(instruction.data) < 8 THEN Decoded("Panic", NoEvent) ELSE
    IF SubSeq(instruction.data, 1, 8) # CREATEDISCRIMINATOR
    THEN Decoded("Skip", NoEvent) ELSE
    IF \E i \in DOMAIN instruction.accounts : instruction.accounts[i] >= tx.keys
    THEN Decoded("Panic", NoEvent) ELSE
    LET d == decode_create_instruction(instruction.data, instruction.accounts) IN
    IF d.tag = "Ok" THEN d ELSE Decoded("Panic", NoEvent)

Scanned(tag, events) == [tag |-> tag, events |-> events]

\* The scan with each new event put in front of the earlier ones, for
\* contrast.
RECURSIVE create_scan_instructions_newest_first(_, _, _)
create_scan_instructions_newest_first(tx, ixs, acc) ==
    IF ixs = <<>> THEN [tag |-> "Ok", events |-> acc] ELSE
    LET d == create_instruction_step(tx, Head(ixs)) IN
    IF d.tag = "Panic" THEN [tag |-> "Panic", events |-> acc] ELSE
    create_scan_instructions_newest_first(
        tx, Tail(ixs), IF d.tag = "Ok" THEN <<d.ev>> \o acc ELSE acc)

RECURSIVE create_scan_instructions(_, _, _)
create_scan_instructions(tx, ixs, acc) ==
    IF ixs = <<>> THEN Scanned("Ok", acc) ELSE
    LET d == create_instruction_step(tx, Head(ixs)) IN
    IF d.tag = "Panic" THEN Scanned("Panic", acc) ELSE
    create_scan_instructions(tx, Tail(ixs),
                             IF d.tag = "Ok" THEN Append(acc, d.ev) ELSE acc)

RECURSIVE create_scan_transactions(_, _)
create_scan_transactions(txs, acc) ==
    IF txs = <<>> THEN Scanned("Ok", acc) ELSE
    IF ~Head(txs).decodes THEN Scanned("Panic", acc) ELSE
    LET r == create_scan_instructions(Head(txs), Head(txs).ixs, acc) IN
    IF r.tag = "Panic" THEN r ELSE create_scan_transactions(Tail(txs), r.events)

create_process_block(block) ==
    IF ~block.has_txs THEN Scanned("Panic", <<>>)
    ELSE create_scan_transactions(block.txs, <<>>)

\* ---------------------------------------------- monitor/token_migration.rs
\* A log line is "init2" when it contains
\* "Program log: initialize2: InitializeInstruction2" and "other" when not.
\* A variant that indexes the key list without the length test.
process_initialize2_transaction_unguarded(tx) ==
    IF ~tx.decodes THEN Decoded("Panic", NoEvent) ELSE
    IF tx.keys > 19
    THEN Decoded("Ok", Event("migration", <<tx.signature>>, <<18, 19, 2>>))
    ELSE Decoded("Panic", NoEvent)

process_initialize2_transaction(tx) ==
    IF ~tx.decodes THEN Decoded("Panic", NoEvent) ELSE
    IF tx.keys > 19
    THEN Decoded("Ok", Event("migration", <<tx.signature>>, <<18, 19, 2>>))
    ELSE Decoded("Skip", NoEvent)

RECURSIVE migration_scan_logs(_, _, _)
migration_scan_logs(tx, logs, acc) ==
    IF logs = <<>> THEN Scanned("Ok", acc) ELSE
    IF Head(logs) # "init2" THEN migration_scan_logs(tx, Tail(logs), acc) ELSE
    LET d == process_initialize2_transaction(tx) IN
    IF d.tag = "Panic" THEN Scanned("Panic", acc) ELSE
    migration_scan_logs(tx, Tail(logs),
                        IF d.tag = "Ok" THEN Append(acc, d.ev) ELSE acc)

RECURSIVE migration_scan_transactions(_, _)
migration_scan_transactions(txs, acc) ==
    IF txs = <<>> THEN Scanned("Ok", acc) ELSE
    IF Head(txs).meta # "logs" THEN Scanned("Panic", acc) ELSE
    LET r == migration_scan_logs(Head(txs), Head(txs).logs, acc) IN
    IF r.tag = "Panic" THEN r ELSE migration_scan_transactions(Tail(txs), r.events)

migration_process_block(block) ==
    IF ~block.has_txs THEN Scanned("Panic", <<>>)
    ELSE migration_scan_transactions(block.txs, <<>>)

\* ------------------------------------------------- tokio::sync::broadcast
\* broadcast::channel(capacity) rounds the capacity up to a power of two.
RECURSIVE next_power_of_two_from(_, _)
next_power_of_two_from(n, p) == IF p >= n THEN p ELSE next_power_of_two_from(n, 2 * p)
next_power_of_two(n) == next_power_of_two_from(n, 1)

\* A bounded queue with back-pressure, for contrast: a send would wait while
\* the receiver has a full capacity of unread values.
send_waits_when_full(log, r, capacity) == Len(log) - r.next >= capacity

\* Sender::send: a synchronous call that never waits for room.  With no
\* receiver left it returns Err and stores nothing; otherwise it stores the
\* value, overwriting the oldest slot when the ring is full.
send_waits(log, r, capacity) == FALSE

broadcast_send(log, r, item) ==
    IF r.alive THEN [ok |-> TRUE, chan |-> Append(log, item)]
    ELSE [ok |-> FALSE, chan |-> log]

\* Receiver::recv: the next unread value; Err(Lagged) when the next value
\* was overwritten (the receiver then stands at the oldest retained value);
\* Err(Closed) when every Sender is gone and nothing is unread; it waits
\* ("Pending") otherwise.
broadcast_recv(log, r, capacity, closed) ==
    IF Len(log) - r.next > capacity
    THEN [tag |-> "Lagged", next |-> Len(log) - capacity]
    ELSE IF r.next < Len(log) THEN [tag |-> "Ok", next |-> r.next + 1]
    ELSE IF closed THEN [tag |-> "Closed", next |-> r.next]
    ELSE [tag |-> "Pending", next |-> r.next]

\* `while let Ok(item) = receiver.recv().await`: the loop body runs on Ok and
\* the loop ends on any Err.
recv_loop_continues(rcv) == rcv.tag = "Ok"

\* =================================================================== state
Mints == {native_mint, "mintA", "mintB"}

\* The AmmInfo of a pool with the given mints and status, no deferred PNL and
\* the fees Fees::initialize sets for swaps.
Pool(coin, pc, status) ==
    [status |-> status, need_take_pnl_pc |-> 0, need_take_pnl_coin |-> 0,
     swap_fee_numerator |-> 25, swap_fee_denominator |-> TenThousand,
     coin_vault_mint |-> coin, pc_vault_mint |-> pc, nonce_ok |-> TRUE]

DefaultArgs ==
    [amount |-> 0, slippage_bps |-> 0, flag |-> FALSE,
     pc_vault_amount |-> 0, coin_vault_amount |-> 0,
     swap_fee_numerator |-> 0, swap_fee_denominator |-> 1,
     swap_direction |-> "Buy", status |-> 6,
     need_take_pnl_pc |-> 0, need_take_pnl_coin |-> 0,
     input_mint |-> native_mint, nonce_ok |-> TRUE, read |-> "ok",
     fees |-> initialize, mint |-> "mintA", threshold |-> 0]

\* Inputs of the pure pricing functions.
MathArgs ==
    {[DefaultArgs EXCEPT !.amount = a, !.slippage_bps = b, !.flag = f,
                         !.pc_vault_amount = p, !.coin_vault_amount = c,
                         !.swap_fee_numerator = fee[1],
                         !.swap_fee_denominator = fee[2],
                         !.swap_direction = d] :
        a \in {0, 1, 2, 100, U64_MAX},
        b \in {0, 100, TenThousand, TenThousand + 1, U64_MAX},
        f \in BOOLEAN,
        p \in {0, 1, 2, 1000, U64_MAX},
        c \in {0, 1, 2, 1000, U64_MAX},
        fee \in {<<25, TenThousand>>, <<0, 1>>, <<1, 0>>, <<3, 2>>, <<1, 1>>},
        d \in {"Buy", "Sell"}}

\* Inputs of calculate_swap_info: a pool (coin native_mint, pc "mintA") in any
\* status, with or without more deferred PNL than its vault holds.
QuoteArgs ==
    {[DefaultArgs EXCEPT !.amount = a, !.slippage_bps = 100, !.flag = f,
                         !.pc_vault_amount = 1000, !.coin_vault_amount = 2000,
                         !.swap_fee_numerator = 25,
                         !.swap_fee_denominator = TenThousand,
                         !.status = st, !.need_take_pnl_pc = np,
                         !.need_take_pnl_coin = nc, !.input_mint = m,
                         !.nonce_ok = n, !.read = rd] :
        a \in {0, 100}, f \in BOOLEAN, st \in 0..8,
        np \in {0, 1001}, nc \in {0, 2001}, m \in Mints, n \in BOOLEAN,
        rd \in {"ok", "rpc_error", "missing", "bad_data"}}

\* Inputs of Fees::validate: each fraction valid, whole, above one, or
\* with a zero denominator.
Fractions == {<<0, 1>>, <<25, 10000>>, <<1, 1>>, <<3, 2>>, <<1, 0>>, <<0, 0>>}

FeesArgs ==
    {[DefaultArgs EXCEPT !.fees = <<m, t, p, w>>] :
        m \in Fractions, t \in Fractions, p \in Fractions, w \in Fractions}

\* Inputs of create_buy_instruction and create_sell_instruction: amounts of
\* one byte, of two bytes and the largest.
InstructionArgs ==
    {[DefaultArgs EXCEPT !.mint = m, !.amount = a, !.threshold = t] :
        m \in {"mintA", "mintB"}, a \in {0, 1, 255, 256, U64_MAX},
        t \in {0, 1, 255, 256, U64_MAX}}

ArgsAmm ==
    [status |-> args.status, need_take_pnl_pc |-> args.need_take_pnl_pc,
     need_take_pnl_coin |-> args.need_take_pnl_coin,
     swap_fee_numerator |-> args.swap_fee_numerator,
     swap_fee_denominator |-> args.swap_fee_denominator,
     coin_vault_mint |-> native_mint, pc_vault_mint |-> "mintA",
     nonce_ok |-> args.nonce_ok]

ArgsRsps ==
    [read |-> args.read, pc_amount |-> args.pc_vault_amount,
     coin_amount |-> args.coin_vault_amount, input_mint |-> args.input_mint]

DefaultSwapReq ==
    [token_in |-> native_mint, token_out |-> "mintA", amount_in |-> 0,
     slippage |-> 1, amm |-> Pool(native_mint, "mintA", 6),
     pc_amount |-> 1000, coin_amount |-> 2000, out_ata_exists |-> TRUE,
     in_decimals |-> 0, rent |-> 20, fail |-> "none", overflow_checks |-> TRUE]

DefaultPumpReq ==
    [mint |-> "mintA", amount |-> 0, slippage |-> 1, is_simulate |-> TRUE,
     curve |-> [virtual_token_reserves |-> 2000, virtual_sol_reserves |-> 1000,
                complete |-> FALSE],
     fee_basis_points |-> 100, ata_exists |-> TRUE, token_balance |-> 0,
     fail |-> "none", overflow_checks |-> TRUE]

SwapReqs ==
    {[DefaultSwapReq EXCEPT !.token_in = ti, !.token_out = to, !.amount_in = a,
                            !.slippage = s, !.amm = Pool(pl[1], pl[2], st),
                            !.out_ata_exists = ata, !.in_decimals = dec,
                            !.rent = rent, !.fail = fl, !.overflow_checks = oc] :
        ti \in Mints, to \in Mints, a \in {0, 1, 100, 250}, s \in {1, 200},
        pl \in {<<native_mint, "mintA">>, <<"mintA", native_mint>>,
                <<"mintA", "mintB">>},
        st \in {5, 6}, ata \in BOOLEAN, dec \in {0, 2}, rent \in {20, U64_MAX},
        fl \in {"none", "pool_rpc", "pool_missing", "pool_bad_data", "ata", "mint",
                "accounts_rpc", "rent", "blockhash", "simulate_rpc",
                "simulation_err"},
        oc \in BOOLEAN}

\* Calls on a pool account whose bytes hold other swap fee fractions:
\* get_pool_state takes the fields as they are in the account data.
PoolFeeReqs ==
    {[DefaultSwapReq EXCEPT !.token_in = t[1], !.token_out = t[2], !.amount_in = a,
                            !.amm = [Pool(native_mint, "mintA", 6) EXCEPT
                                        !.swap_fee_numerator = f[1],
                                        !.swap_fee_denominator = f[2]]] :
        t \in {<<native_mint, "mintA">>, <<"mintA", native_mint>>},
        a \in {0, 1, 100}, f \in Fractions}

PumpReqs ==
    {[DefaultPumpReq EXCEPT !.amount = a, !.slippage = s, !.is_simulate = sim,
                            !.curve.complete = cp, !.curve.virtual_sol_reserves = vs,
                            !.ata_exists = ata, !.token_balance = bal,
                            !.fail = fl, !.overflow_checks = oc] :
        a \in {0, 3, 10, 100}, s \in {1, 200}, sim \in BOOLEAN, cp \in BOOLEAN,
        vs \in {0, 1000, 16000}, ata \in BOOLEAN, bal \in {50, 1000},
        fl \in {"none", "curve", "global", "balance", "balance_none", "ata",
                "blockhash", "simulate_rpc", "simulation_err", "send"},
        oc \in BOOLEAN}

\* Direct calls of new_signed_and_send: the instruction list is one buy
\* instruction of the request's mint and amount.
SendReqs ==
    {[DefaultPumpReq EXCEPT !.amount = a, !.is_simulate = sim, !.fail = fl] :
        a \in {0, 10}, sim \in BOOLEAN,
        fl \in {"none", "blockhash", "simulate_rpc", "simulation_err", "send"}}

NoReq == [op |-> "none", swap |-> DefaultSwapReq, pump |-> DefaultPumpReq]

NoProducer == [pc |-> "none", item |-> <<>>, list |-> <<>>, polls |-> 0]
NoConsumer == [pc |-> "none", item |-> <<>>, outputs |-> <<>>, sunk |-> 0]

TasksIdle ==
    /\ kind = "none"
    /\ env = [bearer |-> TRUE, cookie |-> TRUE]
    /\ channel_size = 1
    /\ chan = <<>>
    /\ rx = [alive |-> FALSE, next |-> 0]
    /\ producer = NoProducer
    /\ consumer = NoConsumer
    /\ timeline = <<>>
    /\ received = <<>>
    /\ delivered = <<>>

PricingIdle == args = DefaultArgs /\ called = "none" /\ result = NoResult
BuilderIdle == req = NoReq /\ built = Unbuilt(NoResult)

\* ================================================== the pricing functions
InitMath ==
    /\ args \in MathArgs \cup QuoteArgs \cup FeesArgs \cup InstructionArgs
    /\ called = "none"
    /\ result = NoResult
    /\ BuilderIdle
    /\ TasksIdle

Call(name, r) ==
    /\ called = "none"
    /\ called' = name
    /\ result' = r
    /\ UNCHANGED <<args, builder_vars, task_vars>>

PumpfunAmountWithSlippage ==
    Call("pumpfun_amount_with_slippage",
         pumpfun_amount_with_slippage(args.amount, args.slippage_bps, args.flag))

AmountWithSlippage ==
    Call("amount_with_slippage",
         amount_with_slippage(args.amount, args.slippage_bps, args.flag))

SwapTokenAmountBaseIn ==
    Call("swap_token_amount_base_in",
         swap_token_amount_base_in(args.amount, args.pc_vault_amount,
                                   args.coin_vault_amount, args.swap_direction))

SwapTokenAmountBaseOut ==
    Call("swap_token_amount_base_out",
         swap_token_amount_base_out(args.amount, args.pc_vault_amount,
                                    args.coin_vault_amount, args.swap_direction))

SwapExactAmount ==
    Call("swap_exact_amount",
         swap_exact_amount(args.pc_vault_amount, args.coin_vault_amount,
                           args.swap_fee_numerator, args.swap_fee_denominator,
                           args.swap_direction, args.amount, args.flag))

SwapWithSlippage ==
    Call("swap_with_slippage",
         swap_with_slippage(args.pc_vault_amount, args.coin_vault_amount,
                            args.swap_fee_numerator, args.swap_fee_denominator,
                            args.swap_direction, args.amount, args.flag,
                            args.slippage_bps))

CalcTotalWithoutTakePnl ==
    Call("calc_total_without_take_pnl_no_orderbook",
         calc_total_without_take_pnl_no_orderbook(
             args.pc_vault_amount, args.coin_vault_amount,
             args.need_take_pnl_pc, args.need_take_pnl_coin))

CalculateSwapInfo ==
    Call("calculate_swap_info",
         calculate_swap_info(ArgsAmm, ArgsRsps, args.amount, args.slippage_bps,
                             args.flag))

FeesValidate == Call("validate", validate(args.fees))

CreateBuyInstruction ==
    Call("create_buy_instruction",
         Ok(create_buy_instruction(args.mint, args.amount, args.threshold)))

CreateSellInstruction ==
    Call("create_sell_instruction",
         Ok(create_sell_instruction(args.mint, args.amount, args.threshold)))

NextMath ==
    \/ PumpfunAmountWithSlippage
    \/ AmountWithSlippage
    \/ SwapTokenAmountBaseIn
    \/ SwapTokenAmountBaseOut
    \/ SwapExactAmount
    \/ SwapWithSlippage
    \/ CalcTotalWithoutTakePnl
    \/ CalculateSwapInfo
    \/ FeesValidate
    \/ CreateBuyInstruction
    \/ CreateSellInstruction

SpecMath == InitMath /\ [][NextMath]_vars

\* ========================================================== the builders
Init ==
    /\ PricingIdle
    /\ TasksIdle
    /\ \/ \E r \in SwapReqs \cup PoolFeeReqs :
             req = [op |-> "get_swap_tx", swap |-> r, pump |-> DefaultPumpReq]
       \/ \E r \in PumpReqs, op \in {"buy", "sell"} :
             req = [op |-> op, swap |-> DefaultSwapReq, pump |-> r]
       \/ \E r \in SendReqs :
             req = [op |-> "new_signed_and_send", swap |-> DefaultSwapReq, pump |-> r]
    /\ built = Unbuilt(NoResult)

GetSwapTx ==
    /\ req.op = "get_swap_tx"
    /\ built.result.tag = "None"
    /\ built' = get_swap_tx(req.swap)
    /\ UNCHANGED <<req, pricing_vars, task_vars>>

Buy ==
    /\ req.op = "buy"
    /\ built.result.tag = "None"
    /\ built' = buy(req.pump)
    /\ UNCHANGED <<req, pricing_vars, task_vars>>

Sell ==
    /\ req.op = "sell"
    /\ built.result.tag = "None"
    /\ built' = sell(req.pump)
    /\ UNCHANGED <<req, pricing_vars, task_vars>>

NewSignedAndSend ==
    /\ req.op = "new_signed_and_send"
    /\ built.result.tag = "None"
    /\ built' = new_signed_and_send(
                    <<create_buy_instruction(req.pump.mint, req.pump.amount,
                                             req.pump.amount)>>,
                    req.pump.is_simulate, req.pump.fail)
    /\ UNCHANGED <<req, pricing_vars, task_vars>>

Next ==
    \/ GetSwapTx
    \/ Buy
    \/ Sell
    \/ NewSignedAndSend

Spec == Init /\ [][Next]_vars

\* ================================================================ the tasks
\* listen_pumpfun_create, listen_rayidum_migration and Engine::run each spawn
\* a task that sends into a broadcast channel and a task that receives.
Str(bytes) == <<Len(bytes), 0, 0, 0>> \o bytes
GoodData == CREATEDISCRIMINATOR \o Str(<<97>>) \o Str(<<98, 99>>) \o Str(<<>>)
TruncatedData == CREATEDISCRIMINATOR \o <<5, 0, 0, 0, 97>>
BadUtf8Data == CREATEDISCRIMINATOR \o Str(<<255>>) \o Str(<<>>) \o Str(<<>>)
BuyData == <<102, 1, 0, 0, 0, 0, 0, 0, 0, 2, 0, 0, 0, 0, 0, 0, 0>>
\* Instruction data of fewer than 8 bytes.
ShortData == <<24, 30, 200>>
\* Create instructions of two other tokens.
SecondData == CREATEDISCRIMINATOR \o Str(<<100>>) \o Str(<<>>) \o Str(<<>>)
ThirdData == CREATEDISCRIMINATOR \o Str(<<101>>) \o Str(<<>>) \o Str(<<>>)

Ix(program, data) == [program |-> program, data |-> data,
                      accounts |-> <<0, 1, 2, 3, 4, 5, 6, 7>>]
\* A create instruction that lists fewer than 8 accounts.
FewAccountsIx == [program |-> "pump", data |-> GoodData, accounts |-> <<0, 1, 2, 3>>]
Tx(decodes, keys, meta, logs, ixs) ==
    [decodes |-> decodes, keys |-> keys, meta |-> meta, logs |-> logs, ixs |-> ixs,
     signature |-> 0]
Block(txs) == [has_txs |-> TRUE, txs |-> txs]
NoTransactions == [has_txs |-> FALSE, txs |-> <<>>]

CreateTx(ixs) == Tx(TRUE, 9, "logs", <<"other">>, ixs)
UndecodableTx == Tx(FALSE, 0, "logs", <<"init2">>, <<>>)
MigrationTx(keys, meta, logs) == Tx(TRUE, keys, meta, logs, <<>>)
\* A migration with one initialize2 log line and the given first signature.
SignedMigrationTx(signature) ==
    [MigrationTx(20, "logs", <<"init2">>) EXCEPT !.signature = signature]

CreateBlocks ==
    {Block(<<CreateTx(<<Ix("other", GoodData), Ix("pump", BuyData),
                        Ix("pump", SecondData), Ix("pump", GoodData)>>),
             CreateTx(<<Ix("pump", ThirdData)>>)>>),
     Block(<<CreateTx(<<Ix("pump", TruncatedData), Ix("pump", GoodData)>>)>>),
     Block(<<CreateTx(<<Ix("pump", BadUtf8Data)>>),
             CreateTx(<<Ix("pump", GoodData)>>)>>),
     Block(<<UndecodableTx, CreateTx(<<Ix("pump", GoodData)>>)>>),
     Block(<<CreateTx(<<Ix("pump", ShortData), Ix("pump", GoodData)>>)>>),
     Block(<<CreateTx(<<FewAccountsIx, Ix("pump", GoodData)>>)>>)}

MigrationBlocks ==
    {Block(<<SignedMigrationTx(2), MigrationTx(20, "logs", <<"other", "init2">>),
             SignedMigrationTx(1)>>),
     Block(<<MigrationTx(19, "logs", <<"init2">>),
             MigrationTx(20, "logs", <<"init2">>)>>),
     Block(<<MigrationTx(20, "none", <<>>), MigrationTx(20, "logs", <<"init2">>)>>),
     Block(<<MigrationTx(20, "no_logs", <<>>), MigrationTx(20, "logs", <<"init2">>)>>),
     Block(<<UndecodableTx, MigrationTx(20, "logs", <<"init2">>)>>)}

Blocks == IF kind = "create" THEN CreateBlocks ELSE MigrationBlocks

process_block(block) ==
    IF kind = "create" THEN create_process_block(block)
    ELSE migration_process_block(block)

Capacity == next_power_of_two(channel_size)
\* Every Sender is dropped once the sending task has ended.
Closed == producer.pc \in {"done", "panicked"}

InitTasks ==
    /\ PricingIdle
    /\ BuilderIdle
    /\ kind \in {"create", "migration", "engine"}
    /\ env \in [bearer : BOOLEAN, cookie : BOOLEAN]
    /\ kind # "engine" => env = [bearer |-> TRUE, cookie |-> TRUE]
    /\ channel_size \in 1..MaxChannelSize
    /\ chan = <<>>
    /\ rx = [alive |-> TRUE, next |-> 0]
    /\ producer = [NoProducer EXCEPT !.pc = IF kind = "engine" THEN "poll"
                                            ELSE "subscribe"]
    /\ consumer = [NoConsumer EXCEPT !.pc = "recv"]
    /\ timeline = <<>>
    /\ received = <<>>
    /\ delivered = <<>>

static_vars == <<pricing_vars, builder_vars, kind, env, channel_size>>

\* block_subscribe(...).await ... .unwrap()
Subscribe ==
    /\ producer.pc = "subscribe"
    /\ \E ok \in BOOLEAN :
         producer' = [producer EXCEPT !.pc = IF ok THEN "stream" ELSE "panicked"]
    /\ UNCHANGED <<static_vars, chan, rx, consumer, timeline, received, delivered>>

\* stream.next().await: a notification with a block, one without, or the end
\* of the stream.
StreamNext ==
    /\ producer.pc = "stream"
    /\ \/ /\ producer.polls < MaxBlocks
          /\ \E b \in Blocks :
               producer' = [producer EXCEPT !.pc = "send", !.item = b,
                                            !.polls = @ + 1]
       \/ /\ producer.polls < MaxBlocks
          /\ producer' = [producer EXCEPT !.polls = @ + 1]
       \/ producer' = [producer EXCEPT !.pc = "done"]
    /\ UNCHANGED <<static_vars, chan, rx, consumer, timeline, received, delivered>>

\* match sender.send(item) { Ok(_) => ..., Err(e) => log }
ProducerSend ==
    /\ producer.pc = "send"
    /\ ~send_waits(chan, rx, Capacity)
    /\ chan' = broadcast_send(chan, rx, producer.item).chan
    /\ producer' = [producer EXCEPT !.pc = IF kind = "engine" THEN "tweets"
                                           ELSE "stream"]
    /\ UNCHANGED <<static_vars, rx, consumer, timeline, received, delivered>>

\* The head of the polling loop: TwitterApi::new(auth_for_twitter()).
PollStart ==
    /\ producer.pc = "poll"
    /\ producer.polls < MaxPolls
    /\ producer' = [producer EXCEPT !.pc = IF env.bearer THEN "fetch"
                                           ELSE "panicked"]
    /\ UNCHANGED <<static_vars, chan, rx, consumer, timeline, received, delivered>>

\* get_post_content(&api, user).await for the followed account: the posts up
\* to now, an Err, or a response without data (expect panics).
Fetch ==
    /\ producer.pc = "fetch"
    /\ \/ /\ timeline # <<>>
          /\ producer' = [producer EXCEPT !.pc = "tweets", !.list = timeline]
       \/ producer' = [producer EXCEPT !.pc = "sleep"]
       \/ /\ timeline = <<>>
          /\ producer' = [producer EXCEPT !.pc = "panicked"]
    /\ UNCHANGED <<static_vars, chan, rx, consumer, timeline, received, delivered>>

\* process_tweet(tweet, &strategy).await on the next tweet of the list.
ProcessTweet ==
    /\ producer.pc = "tweets"
    /\ producer.list # <<>>
    /\ LET tweet == Head(producer.list) IN
       producer' =
           IF ~tweet.has_address
           THEN [producer EXCEPT !.list = Tail(@)]
           ELSE IF ~env.cookie
           THEN [producer EXCEPT !.pc = "panicked"]
           ELSE [producer EXCEPT !.pc = "send", !.list = Tail(@),
                                 !.item = [post |-> tweet.id]]
    /\ UNCHANGED <<static_vars, chan, rx, consumer, timeline, received, delivered>>

TweetsDone ==
    /\ producer.pc = "tweets"
    /\ producer.list = <<>>
    /\ producer' = [producer EXCEPT !.pc = "sleep"]
    /\ UNCHANGED <<static_vars, chan, rx, consumer, timeline, received, delivered>>

\* tokio::time::sleep(poll_interval).await, then the next iteration.
Sleep ==
    /\ producer.pc = "sleep"
    /\ producer' = [producer EXCEPT !.pc = "poll", !.polls = @ + 1]
    /\ UNCHANGED <<static_vars, chan, rx, consumer, timeline, received, delivered>>

\* The followed account publishes a post, with or without an address in it.
NewPost ==
    /\ kind = "engine"
    /\ Len(timeline) < MaxPosts
    /\ \E a \in BOOLEAN :
         timeline' = Append(timeline, [id |-> Len(timeline) + 1, has_address |-> a])
    /\ UNCHANGED <<static_vars, chan, rx, producer, consumer, received, delivered>>

\* receiver.recv().await and, on Ok, the synchronous start of the loop body
\* (process_block in the monitors); on Err the loop and the task end.
Recv ==
    /\ consumer.pc = "recv"
    /\ LET rcv == broadcast_recv(chan, rx, Capacity, Closed) IN
       /\ rcv.tag # "Pending"
       /\ IF recv_loop_continues(rcv)
          THEN LET item == chan[rcv.next]
                   r == IF kind = "engine" THEN Scanned("Ok", <<item>>)
                        ELSE process_block(item)
               IN  /\ received' = Append(received, [pos |-> rcv.next,
                                                        published |-> Len(chan)])
                   /\ rx' = [alive |-> r.tag # "Panic", next |-> rcv.next]
                   /\ consumer' =
                        [pc |-> IF r.tag = "Panic" THEN "panicked"
                                ELSE IF r.events = <<>> THEN "recv" ELSE "sink",
                         item |-> item, outputs |-> r.events, sunk |-> 0]
          ELSE /\ received' = received
               /\ rx' = [alive |-> FALSE, next |-> rcv.next]
               /\ consumer' = [consumer EXCEPT !.pc = "done"]
    /\ UNCHANGED <<static_vars, chan, producer, timeline, delivered>>

\* The sink call on the next output: bot.send_message in the monitors,
\* http_client.send_transaction in the engine; Ok and Err both go on.
Deliver ==
    /\ consumer.pc = "sink"
    /\ delivered' = Append(delivered, [pos |-> received[Len(received)].pos,
                                       out |-> consumer.outputs[consumer.sunk + 1]])
    /\ consumer' = [consumer EXCEPT !.sunk = @ + 1,
                                    !.pc = IF consumer.sunk + 1 = Len(consumer.outputs)
                                           THEN "recv" ELSE "sink"]
    /\ UNCHANGED <<static_vars, chan, rx, producer, timeline, received>>

NextTasks ==
    \/ Subscribe
    \/ StreamNext
    \/ ProducerSend
    \/ PollStart
    \/ Fetch
    \/ ProcessTweet
    \/ TweetsDone
    \/ Sleep
    \/ NewPost
    \/ Recv
    \/ Deliver

SpecTasks == InitTasks /\ [][NextTasks]_vars

\* ============================================================ the properties
IsSwap(ix) == ix.op \in {"SwapBaseIn", "SwapBaseOut"}

\* C1: in every instruction list get_swap_tx builds, a create-with-seed
\* instruction for the temporary wrapped-native account is followed by a swap
\* instruction that uses the account and then by the close-account
\* instruction for the same account.
C1_TemporaryAccountClosed ==
    req.op = "get_swap_tx" =>
        \A i \in DOMAIN built.instructions :
            built.instructions[i].op = "CreateAccountWithSeed" =>
                \E j, k \in DOMAIN built.instructions :
                    /\ i < j /\ j < k
                    /\ IsSwap(built.instructions[j])
                    /\ built.instructions[i].a \in
                           {built.instructions[j].a, built.instructions[j].b}
                    /\ built.instructions[k].op = "CloseAccount"
                    /\ built.instructions[k].a = built.instructions[i].a

\* The events of a block's decodable create instructions / migration logs,
\* every undecodable transaction, instruction or log line left out.
RECURSIVE Flatten(_)
Flatten(ss) == IF ss = <<>> THEN <<>> ELSE Head(ss) \o Flatten(Tail(ss))

DecodableCreateEvents(block) ==
    Flatten([t \in DOMAIN block.txs |->
        IF ~block.txs[t].decodes THEN <<>> ELSE
        Flatten([i \in DOMAIN block.txs[t].ixs |->
            LET d == create_instruction_step(block.txs[t], block.txs[t].ixs[i])
            IN  IF d.tag = "Ok" THEN <<d.ev>> ELSE <<>>])])

DecodableMigrationEvents(block) ==
    Flatten([t \in DOMAIN block.txs |->
        IF block.txs[t].meta # "logs" THEN <<>> ELSE
        Flatten([l \in DOMAIN block.txs[t].logs |->
            LET d == process_initialize2_transaction(block.txs[t])
            IN  IF block.txs[t].logs[l] = "init2" /\ d.tag = "Ok"
                THEN <<d.ev>> ELSE <<>>])])

DecodableEvents(block) ==
    IF kind = "create" THEN DecodableCreateEvents(block)
    ELSE DecodableMigrationEvents(block)

\* C2: in both monitors a decode failure on one instruction or log line is
\* skipped: process_block returns the event of every decodable instruction or
\* log of the block and the consumer task stays alive for the later blocks.
C2_DecodeFailureSkipped ==
    (kind \in {"create", "migration"} /\ received # <<>>) =>
        /\ consumer.pc # "panicked"
        /\ consumer.outputs = DecodableEvents(consumer.item)

\* The consumer can take no further step of its own.
ConsumerQuiet ==
    \/ consumer.pc \in {"done", "panicked"}
    \/ /\ consumer.pc = "recv"
       /\ broadcast_recv(chan, rx, Capacity, Closed).tag = "Pending"

\* C3: when N items were published into a channel of capacity K < N before
\* the consumer task consumed any of them, the consumer goes on to observe
\* exactly the most recent K items, in order.
C3_LaggingConsumerSeesLastK ==
    ( /\ kind # "none"
      /\ Len(chan) > channel_size
      /\ ConsumerQuiet
      /\ consumer.pc # "panicked"
      /\ received # <<>> => received[1].published = Len(chan) )
    => /\ Len(received) = channel_size
       /\ \A i \in DOMAIN received :
              received[i].pos = Len(chan) - channel_size + i

\* C4: whatever the consumer is doing (idle, busy in a sink call, lagging by
\* more than the capacity, terminated), a producer that holds an item to send
\* can take its send step at once, and that step takes it on to the next
\* block or tweet.
C4_ProducerNeverBlocked ==
    producer.pc = "send" =>
        ENABLED (ProducerSend /\ producer'.pc \in {"stream", "tweets"})

\* C4 witness: the producer is about to send while the channel is full of
\* items the consumer, busy in a sink call, has not read.
C4_Witness ==
    /\ producer.pc = "send"
    /\ consumer.pc = "sink"
    /\ Len(chan) - rx.next >= Capacity

\* C5: in Engine::run, with the environment fully configured, no failure of
\* a stage of a trade ends a task: the polling task and the submission task
\* are both still running.
C5_FailureAbortsOnlyTheTrade ==
    (kind = "engine" /\ env.bearer /\ env.cookie) =>
        /\ producer.pc # "panicked"
        /\ consumer.pc \notin {"done", "panicked"}

\* C6: over any number of iterations of the polling loop, at most one
\* transaction is published to the channel for each post of the account.
C6_SignalConsumedAtMostOnce ==
    kind = "engine" =>
        \A t \in DOMAIN timeline :
            Cardinality({i \in DOMAIN chan : chan[i].post = timeline[t].id}) <= 1

\* C7: every transaction a builder signs (get_swap_tx through
\* new_signed_and_send, buy, sell) begins with the unit-limit instruction at
\* position 0 and the unit-price instruction at position 1, and holds no
\* other compute-budget instruction.
C7_ComputeBudgetFirst ==
    built.tx # <<>> =>
        /\ Len(built.tx) >= 2
        /\ built.tx[1].op = "SetComputeUnitLimit"
        /\ built.tx[2].op = "SetComputeUnitPrice"
        /\ \A i \in DOMAIN built.tx :
               i > 2 => built.tx[i].op \notin {"SetComputeUnitLimit",
                                               "SetComputeUnitPrice"}

\* C8: a pricing function ends in Ok or in an Err returned to its caller,
\* never in a panic, and an Ok value of swap_exact_amount is the wide
\* intermediate itself, not its low word.
C8_ArithmeticFailureIsAnError ==
    called \in {"pumpfun_amount_with_slippage", "amount_with_slippage",
                "swap_exact_amount", "swap_token_amount_base_in",
                "swap_token_amount_base_out"} =>
        /\ result.tag \in {"Ok", "Err"}
        /\ (called = "swap_exact_amount" /\ result.tag = "Ok") =>
               result.val = swap_exact_amount_u128(
                                args.pc_vault_amount, args.coin_vault_amount,
                                args.swap_fee_numerator, args.swap_fee_denominator,
                                args.swap_direction, args.amount, args.flag).val

\* C9: when a side's deferred PNL exceeds its vault balance, a call of
\* calculate_swap_info that gets as far as the reserves returns an Err to its
\* caller.
C9_PnlUnderflowIsAnError ==
    ( /\ called = "calculate_swap_info"
      /\ args.nonce_ok /\ args.read = "ok"
      /\ args.status \in 0..7 /\ ~orderbook_permission(from_u64(args.status))
      /\ \/ args.need_take_pnl_pc > args.pc_vault_amount
         \/ args.need_take_pnl_coin > args.coin_vault_amount )
    => result.tag = "Err"

\* C10: when token_in is neither the pool's coin mint nor its pc mint, a call
\* of get_swap_tx on a pool without order book, in which no read, simulation
\* or submission fails, returns Err(AssetMismatch) and builds no transaction.
C10_AssetMismatchIsAnError ==
    ( /\ req.op = "get_swap_tx"
      /\ built.result.tag # "None"
      /\ req.swap.fail = "none"
      /\ req.swap.amm.nonce_ok
      /\ req.swap.amm.status \in 0..7
      /\ ~orderbook_permission(from_u64(req.swap.amm.status))
      /\ req.swap.slippage * 100 <= U64_MAX
      /\ req.swap.token_in \notin {req.swap.amm.coin_vault_mint,
                                   req.swap.amm.pc_vault_mint} )
    => /\ built.result.tag = "Err"
       /\ built.result.msg = "AssetMismatch"
       /\ built.instructions = <<>>
       /\ built.tx = <<>>

\* C11: Fees::validate returns Err exactly when one of the four fractions has
\* numerator >= denominator or denominator = 0, and Ok exactly when every
\* fraction has numerator < denominator.
C11_FeesValidate ==
    called = "validate" =>
        LET bad(f) == f[1] >= f[2] \/ f[2] = 0 IN
        /\ result.tag \in {"Ok", "Err"}
        /\ result.tag = "Err" <=> \E i \in 1..4 : bad(args.fees[i])
        /\ result.tag = "Ok" <=> \A i \in 1..4 : args.fees[i][1] < args.fees[i][2]

\* C11 witness: a validation that fails on the last fraction only, whose
\* numerator equals its denominator.
C11_Witness ==
    /\ called = "validate"
    /\ result.tag = "Err"
    /\ args.fees[4] = <<1, 1>>
    /\ \A i \in 1..3 : args.fees[i][1] < args.fees[i][2]

\* C12: for every amount and bps whose adjusted amount is a u64 (upward:
\* bps + 10000 and the exact quotient fit; downward: bps <= 10000), both
\* amount_with_slippage functions return it: at least the amount upward
\* when bps > 0, at most the amount downward, and the amount itself when
\* bps = 0.
C12_SlippageMonotone ==
    ( /\ called \in {"pumpfun_amount_with_slippage", "amount_with_slippage"}
      /\ args.flag =>
             /\ args.slippage_bps + TenThousand <= U64_MAX
             /\ (args.amount * (TenThousand + args.slippage_bps)) \div TenThousand
                    <= U64_MAX
      /\ ~args.flag => args.slippage_bps <= TenThousand )
    => /\ result.tag = "Ok"
       /\ (args.flag /\ args.slippage_bps > 0) => result.val >= args.amount
       /\ ~args.flag => result.val <= args.amount
       /\ args.slippage_bps = 0 => result.val = args.amount

\* The exact-in quote of the constant-product rule in plain integers:
\* floor(R_out * x' / (R_in + x')) with x' = x - floor(x * fn / fd).
\* It has no value (None) where a division is by zero.
ExactInQuote(rin, rout, fn, fd, x) ==
    IF fd = 0 THEN None ELSE
    LET after == x - ((x * fn) \div fd)
    IN  IF rin + after = 0 THEN None ELSE (rout * after) \div (rin + after)

\* A base-in call of swap_exact_amount that returned a quote.
ExactInQuoted ==
    /\ called = "swap_exact_amount"
    /\ args.flag
    /\ result.tag = "Ok"

\* C13 (amended): a base-in swap_exact_amount that returns, returns
\* floor(R_out * x' / (R_in + x')) with x' = x - floor(x * fn / fd), in both
\* directions; with pc = 1000000, coin = 2000000, fee 25/10000 and pc input
\* 10000 the fee-adjusted input is 9975 and the output 19752.
C13_ExactIn ==
    ExactInQuoted =>
        LET rin == IF args.swap_direction = "Buy" THEN args.coin_vault_amount
                   ELSE args.pc_vault_amount
            rout == IF args.swap_direction = "Buy" THEN args.pc_vault_amount
                    ELSE args.coin_vault_amount
        IN  /\ result.val = ExactInQuote(rin, rout, args.swap_fee_numerator,
                                         args.swap_fee_denominator, args.amount)
            /\ rin + args.amount > 0 =>
                   result.val = swap_exact_in_wide(
                       args.pc_vault_amount, args.coin_vault_amount,
                       args.swap_fee_numerator, args.swap_fee_denominator,
                       args.swap_direction, args.amount)
            /\ 10000 - wide_mul_div(10000, 25, 10000) = 9975
            /\ swap_exact_in_wide(1000000, 2000000, 25, 10000, "Sell", 10000)
                   = 19752

\* C13 witness: a base-in quote above zero on an input that pays a fee.
C13_Witness ==
    /\ ExactInQuoted
    /\ result.val > 0
    /\ (args.amount * args.swap_fee_numerator) \div args.swap_fee_denominator > 0
    /\ args.pc_vault_amount # args.coin_vault_amount

\* C13 as stated: the same rule, and output 19753 for the example.
C13_ExactInAsStated ==
    ExactInQuoted =>
        LET rin == IF args.swap_direction = "Buy" THEN args.coin_vault_amount
                   ELSE args.pc_vault_amount
            rout == IF args.swap_direction = "Buy" THEN args.pc_vault_amount
                    ELSE args.coin_vault_amount
        IN  /\ result.val = ExactInQuote(rin, rout, args.swap_fee_numerator,
                                         args.swap_fee_denominator, args.amount)
            /\ 10000 - wide_mul_div(10000, 25, 10000) = 9975
            /\ swap_exact_in_wide(1000000, 2000000, 25, 10000, "Sell", 10000)
                   = 19753

\* C14: a base-out swap_exact_amount for an output y strictly below the
\* output reserve, with a fee fraction below one, that returns, returns
\* floor(b * fd / (fd - fn)) with b = floor(R_in * y / (R_out - y)), and
\* never less than b.
C14_ExactOut ==
    LET rin == IF args.swap_direction = "Buy" THEN args.coin_vault_amount
               ELSE args.pc_vault_amount
        rout == IF args.swap_direction = "Buy" THEN args.pc_vault_amount
                ELSE args.coin_vault_amount
    IN  ( /\ called = "swap_exact_amount"
          /\ ~args.flag
          /\ result.tag = "Ok"
          /\ args.amount < rout
          /\ args.swap_fee_numerator < args.swap_fee_denominator )
        => LET b == (rin * args.amount) \div (rout - args.amount) IN
           /\ result.val = (b * args.swap_fee_denominator)
                               \div (args.swap_fee_denominator
                                        - args.swap_fee_numerator)
           /\ result.val >= b

HasCreateOpcode(data) ==
    Len(data) >= 8 /\ SubSeq(data, 1, 8) = CREATEDISCRIMINATOR

\* The instructions of a block, transaction by transaction.
InstructionsOf(block) == Flatten([t \in DOMAIN block.txs |-> block.txs[t].ixs])

\* C15: when the create monitor scans a block whose transactions all decode
\* and whose instructions with the create opcode all decode, an instruction
\* of the program without the opcode in its first 8 bytes (whatever its
\* length) emits nothing and fails nothing: the scan returns the events of
\* the block's create instructions.
C15_OtherOpcodeSkipped ==
    LET ixs == InstructionsOf(consumer.item) IN
    ( /\ kind = "create"
      /\ received # <<>>
      /\ consumer.item.has_txs
      /\ \A t \in DOMAIN consumer.item.txs : consumer.item.txs[t].decodes
      /\ \A i \in DOMAIN ixs :
             (ixs[i].program = "pump" /\ HasCreateOpcode(ixs[i].data)) =>
                 decode_create_instruction(ixs[i].data, ixs[i].accounts).tag = "Ok"
      /\ \E i \in DOMAIN ixs :
             ixs[i].program = "pump" /\ ~HasCreateOpcode(ixs[i].data) )
    => /\ consumer.pc # "panicked"
       /\ consumer.outputs =
              Flatten([i \in DOMAIN ixs |->
                  IF ixs[i].program = "pump" /\ HasCreateOpcode(ixs[i].data)
                  THEN <<decode_create_instruction(ixs[i].data, ixs[i].accounts).ev>>
                  ELSE <<>>])

\* Whether n length-prefixed fields lie inside the data from the 0-based
\* offset on.
RECURSIVE FieldsFit(_, _, _)
FieldsFit(data, offset, n) ==
    \/ n = 0
    \/ /\ offset + 4 <= Len(data)
       /\ LET length == data[offset + 1] + 256 * data[offset + 2]
                         + 65536 * data[offset + 3] + 16777216 * data[offset + 4]
          IN  /\ offset + 4 + length <= Len(data)
              /\ FieldsFit(data, offset + 4 + length, n - 1)

\* C16: for every create instruction of a block the create monitor scanned,
\* decode_create_instruction returns Ok or Err; it returns Err when the
\* instruction lists fewer than 8 accounts or its argument bytes end inside
\* a field; and an Ok event carries the accounts at positions 0, 2, 3 and 7
\* as mint, bonding curve, associated bonding curve and creator.
C16_ShortInputIsDecodeFailure ==
    (kind = "create" /\ received # <<>> /\ consumer.item.has_txs) =>
        LET ixs == InstructionsOf(consumer.item) IN
        \A i \in DOMAIN ixs :
            (ixs[i].program = "pump" /\ HasCreateOpcode(ixs[i].data)) =>
                LET d == decode_create_instruction(ixs[i].data, ixs[i].accounts) IN
                /\ d.tag \in {"Ok", "Err"}
                /\ (Len(ixs[i].accounts) < 8 \/ ~FieldsFit(ixs[i].data, 8, 3)) =>
                       d.tag = "Err"
                /\ d.tag = "Ok" =>
                       d.ev.keys = <<ixs[i].accounts[1], ixs[i].accounts[3],
                                     ixs[i].accounts[4], ixs[i].accounts[8]>>

\* The events the sink is due for the blocks the consumer received, block by
\* block in the order of the channel, within a block in the order of its
\* transactions and within a transaction in the order of its instructions
\* or log lines; a block whose scan failed is due none.
EmissionOrder ==
    Flatten([k \in DOMAIN received |->
        LET block == chan[received[k].pos]
            evs == IF process_block(block).tag = "Panic" THEN <<>>
                   ELSE DecodableEvents(block)
        IN  [e \in DOMAIN evs |-> [pos |-> received[k].pos, out |-> evs[e]]]])

\* C17: in both monitors the consumer receives the blocks in the order the
\* producer sent them, and the events that reached the sink so far are, in
\* order, the first events of the emission order.
C17_SinkInEmissionOrder ==
    kind \in {"create", "migration"} =>
        LET due == EmissionOrder IN
        /\ \A i, j \in DOMAIN received :
               i < j => received[i].pos < received[j].pos
        /\ Len(delivered) <= Len(due)
        /\ \A i \in DOMAIN delivered :
               /\ delivered[i].pos = due[i].pos
               /\ delivered[i].out = due[i].out

\* C17 witness: the sink got two different events of one block and then an
\* event of a later block.
C17_Witness ==
    /\ kind \in {"create", "migration"}
    /\ Len(delivered) >= 3
    /\ delivered[1].pos = delivered[2].pos
    /\ delivered[1].out # delivered[2].out
    /\ delivered[Len(delivered)].pos > delivered[2].pos

RECURSIVE from_le_bytes(_)
from_le_bytes(b) == IF b = <<>> THEN 0 ELSE Head(b) + 256 * from_le_bytes(Tail(b))

\* The twelve accounts in the order the claim lists them.
TwelveAccounts(mint) ==
    <<get_global_pda, "PUMPFUN_FEE_RECEIPT", mint, get_bonding_curve_pda(mint),
      get_associated_token_address(get_bonding_curve_pda(mint), mint),
      get_associated_token_address(Payer, mint), Payer,
      "SYSTEM_PROGRAM", "TOKEN_PROGRAM", "RENT", "EVENT_AUTHORITY", "PUMPFUN">>

CreationPositions ==
    {i \in DOMAIN built.tx : built.tx[i].op = "CreateAssociatedTokenAccount"}
TradePositions ==
    {i \in DOMAIN built.tx : built.tx[i].op = "PumpBuy" \/ IsSwap(built.tx[i])}

\* C19: in a transaction built by the bonding-curve buy, or by the
\* constant-product swap in the direction that reads the destination token
\* account, the account-creation instruction is present exactly when the
\* account does not exist, it precedes every trade instruction, and the call
\* ends as it would if the account existed.
C19_CreationIffAccountMissing ==
    /\ req.op = "buy" /\ built.result.tag # "None" =>
           /\ built.result = buy([req.pump EXCEPT !.ata_exists = TRUE]).result
           /\ built.tx # <<>> =>
                  /\ CreationPositions # {} <=> ~req.pump.ata_exists
                  /\ \A i \in CreationPositions, j \in TradePositions : i < j
    /\ (/\ req.op = "get_swap_tx" /\ built.result.tag # "None"
        /\ req.swap.token_in = req.swap.amm.coin_vault_mint) =>
           /\ built.result
                  = get_swap_tx([req.swap EXCEPT !.out_ata_exists = TRUE]).result
           /\ built.tx # <<>> =>
                  /\ CreationPositions # {} <=> ~req.swap.out_ata_exists
                  /\ \A i \in CreationPositions, j \in TradePositions : i < j

\* The same for the calls in which the read of the account itself succeeds.
C19_WhenTheReadSucceeds ==
    (req.op = "buy" => req.pump.fail # "ata")
    /\ (req.op = "get_swap_tx" => req.swap.fail # "ata")
        => C19_CreationIffAccountMissing

\* C20: a call of buy, sell or new_signed_and_send in simulate mode makes no
\* submission call; once it has signed its transaction it makes exactly one
\* simulation call and ends Ok with no identifier when the simulation reported
\* no error and Err otherwise.  In submit mode it makes no simulation call and,
\* when it ends Ok, the result carries exactly one identifier.
C20_SimulateNeverSubmits ==
    (req.op \in {"buy", "sell", "new_signed_and_send"} /\ built.result.tag # "None") =>
        IF req.pump.is_simulate
        THEN /\ built.submissions = 0
             /\ built.tx # <<>> =>
                    /\ built.simulations = 1
                    /\ IF req.pump.fail \in {"simulate_rpc", "simulation_err"}
                       THEN built.result.tag = "Err"
                       ELSE built.result = Ok(0)
        ELSE /\ built.simulations = 0
             /\ built.result.tag = "Ok" => built.result.val = 1 /\ built.submissions >= 1

\* C20 witness: a sell in simulate mode whose simulation reported an error.
C20_Witness ==
    /\ req.op = "sell"
    /\ req.pump.is_simulate
    /\ req.pump.fail = "simulation_err"
    /\ built.tx # <<>>
    /\ built.simulations = 1
    /\ built.result.tag = "Err"

\* C20 as stated, for every call that has ended: in simulate mode exactly one
\* simulation call whether or not the call got as far as signing.
C20_AsStated ==
    (req.op \in {"buy", "sell", "new_signed_and_send"} /\ built.result.tag # "None") =>
        IF req.pump.is_simulate
        THEN /\ built.submissions = 0
             /\ built.simulations = 1
             /\ IF req.pump.fail \in {"simulate_rpc", "simulation_err"}
                THEN built.result.tag = "Err"
                ELSE built.result = Ok(0)
        ELSE /\ built.simulations = 0
             /\ built.result.tag = "Ok" => built.result.val = 1 /\ built.submissions >= 1

\* The call read the curve snapshot and got as far as its pricing call.
PricingReached ==
    /\ req.op \in {"buy", "sell"}
    /\ built.result.tag # "None"
    /\ req.pump.fail \notin {"curve", "global", "balance", "balance_none"}
    /\ req.op = "sell" => req.pump.token_balance >= req.pump.amount

\* C21: a buy or sell whose curve snapshot has complete = true returns the
\* ProtocolClosed error of its pricing call and builds, simulates and submits
\* nothing.
C21_ClosedCurveIsReturned ==
    (PricingReached /\ req.pump.curve.complete) =>
        /\ built.result = Err("ProtocolClosed")
        /\ built.instructions = <<>>
        /\ built.tx = <<>>
        /\ built.simulations = 0
        /\ built.submissions = 0

\* C22: in Engine::run, while the submission call of one transaction has not
\* returned and a transaction published later waits in the channel, the
\* submission of the later transaction can start.
C22_StalledSubmissionDelaysNoTrade ==
    (/\ kind = "engine"
     /\ consumer.pc = "sink"
     /\ rx.next < Len(chan)
     /\ Len(chan) - rx.next <= Capacity) =>
        ENABLED Recv

\* C23: a get_swap_tx call that returns with a quote priced a pool whose swap
\* fee fraction has a nonzero denominator and a numerator below it.
C23_FeeInvariantAtPricing ==
    (req.op = "get_swap_tx" /\ built.result.tag = "Ok") =>
        /\ req.swap.amm.swap_fee_denominator # 0
        /\ req.swap.amm.swap_fee_numerator < req.swap.amm.swap_fee_denominator

\* C24: in every swap instruction of a transaction get_swap_tx signed, the
\* temporary wrapped-native account is the source account exactly when
\* token_in is the native mint and the destination account exactly when
\* token_out is the native mint.
C24_TemporaryAccountOnNativeSide ==
    req.op = "get_swap_tx" =>
        \A i \in DOMAIN built.tx :
            IsSwap(built.tx[i]) =>
                /\ built.tx[i].a = WsolPubkey <=> req.swap.token_in = native_mint
                /\ built.tx[i].b = WsolPubkey <=> req.swap.token_out = native_mint

\* Every transaction of the block decodes and has a status meta with logs.
ReadableBlock(block) ==
    /\ block.has_txs
    /\ \A t \in DOMAIN block.txs : block.txs[t].decodes /\ block.txs[t].meta = "logs"

\* One event per marker line of a transaction with at least 20 static keys,
\* in transaction then line order: coin mint, pc mint and pool are the keys
\* at 18, 19 and 2.
MarkerEvents(block) ==
    Flatten([t \in DOMAIN block.txs |->
        Flatten([l \in DOMAIN block.txs[t].logs |->
            IF block.txs[t].logs[l] = "init2" /\ ~(block.txs[t].keys < 20)
            THEN <<[kind |-> "migration", fields |-> <<block.txs[t].signature>>,
                    keys |-> <<18, 19, 2>>]>>
            ELSE <<>>])])

\* C25: in the migration monitor the scan of a block of readable transactions
\* yields, for every marker line of a transaction with 20 or more static
\* keys, an event with the keys at 18, 19 and 2; a marker transaction with
\* fewer keys yields nothing, fails nothing and the transactions after it are
\* scanned.
C25_MigrationPositions ==
    (kind = "migration" /\ received # <<>> /\ ReadableBlock(consumer.item)) =>
        /\ consumer.pc # "panicked"
        /\ consumer.outputs = MarkerEvents(consumer.item)

\* C25 witness: the scanned block has a marker transaction with fewer than 20
\* keys and, after it, a transaction whose event was emitted.
C25_Witness ==
    /\ kind = "migration"
    /\ received # <<>>
    /\ ReadableBlock(consumer.item)
    /\ \E t, u \in DOMAIN consumer.item.txs :
           /\ t < u
           /\ consumer.item.txs[t].keys < 20
           /\ "init2" \in {consumer.item.txs[t].logs[l] : l \in DOMAIN consumer.item.txs[t].logs}
           /\ consumer.item.txs[u].keys >= 20
    /\ Len(consumer.outputs) = 1
    /\ consumer.outputs[1].keys = <<18, 19, 2>>

\* C26: the sell instruction of a built sell carries the caller's token
\* amount as its amount and the slippage-reduced quoted output as its
\* threshold.
C26_SellAmountIsTokenAmount ==
    req.op = "sell" =>
        \A i \in DOMAIN built.instructions :
            built.instructions[i].op = "PumpSell" =>
                /\ built.instructions[i].x = req.pump.amount
                /\ built.instructions[i].y =
                       pumpfun_amount_with_slippage(
                           get_sell_price(req.pump.curve, req.pump.amount,
                                          req.pump.fee_basis_points).val,
                           req.pump.slippage * 100, FALSE).val

\* The threshold half of C26 alone.
C26_SellThreshold ==
    req.op = "sell" =>
        \A i \in DOMAIN built.instructions :
            built.instructions[i].op = "PumpSell" =>
                built.instructions[i].y =
                    pumpfun_amount_with_slippage(
                        get_sell_price(req.pump.curve, req.pump.amount,
                                       req.pump.fee_basis_points).val,
                        req.pump.slippage * 100, FALSE).val

\* C27: the buy instruction of a built buy carries the token quantity quoted
\* for amount_sol as its amount and floor(amount_sol * (10000 + bps) / 10000),
\* bps = slippage * 100, as its threshold.
C27_BuyThresholdIsNativeCost ==
    req.op = "buy" =>
        \A i \in DOMAIN built.instructions :
            built.instructions[i].op = "PumpBuy" =>
                /\ built.instructions[i].x
                       = get_buy_price(req.pump.curve, req.pump.amount).val
                /\ built.instructions[i].y
                       = (req.pump.amount * (10000 + req.pump.slippage * 100)) \div 10000

\* The amount half of C27 alone.
C27_BuyAmount ==
    req.op = "buy" =>
        \A i \in DOMAIN built.instructions :
            built.instructions[i].op = "PumpBuy" =>
                built.instructions[i].x
                    = get_buy_price(req.pump.curve, req.pump.amount).val

\* C28: calculate_swap_info returns a quote only for a status in 0..7 whose
\* AmmStatus grants swap permission.
C28_QuoteNeedsSwapPermission ==
    (called = "calculate_swap_info" /\ result.tag = "Ok") =>
        /\ args.status \in 0..7
        /\ swap_permission(from_u64(args.status))

\* What the code enforces instead: no quote for a status outside 0..7 or with
\* order book permission.
C28_QuoteNeedsNoOrderbook ==
    (called = "calculate_swap_info" /\ result.tag = "Ok") =>
        /\ args.status \in 0..7
        /\ ~orderbook_permission(from_u64(args.status))

\* The caller's amount_in as a quantity of token_in, in the smallest unit of
\* token_in.
AmountOfTokenIn ==
    ui_amount_to_amount(req.swap.amount_in,
                        IF req.swap.token_in = native_mint THEN NATIVE_DECIMALS
                        ELSE req.swap.in_decimals)

\* The mint account of the native mint has the native decimals.
NativeMintReadsNativeDecimals ==
    req.swap.token_in = native_mint => req.swap.in_decimals = NATIVE_DECIMALS

\* C29: every swap instruction of a transaction get_swap_tx signed takes the
\* caller's amount_in, a quantity of token_in, as its input amount, with the
\* other number as the bound on the output.
C29_AmountInIsInputSide ==
    (req.op = "get_swap_tx" /\ NativeMintReadsNativeDecimals) =>
        \A i \in DOMAIN built.tx :
            IsSwap(built.tx[i]) =>
                /\ built.tx[i].op = "SwapBaseIn"
                /\ built.tx[i].x = AmountOfTokenIn

\* The same for the calls whose token_in is the native mint.
C29_WhenPayingNative ==
    req.swap.token_in = native_mint => C29_AmountInIsInputSide

\* The kinds of the instructions of a transaction, in order, with both swap
\* variants as "Swap".
KindsOf(tx) == [i \in DOMAIN tx |-> IF IsSwap(tx[i]) THEN "Swap" ELSE tx[i].op]

\* The orders the claim allows for a trade that does or does not involve the
\* native asset: the destination account creation and the swap each present
\* or not, the close present exactly with the swap of a native trade.
AllowedOrders(wsol) ==
    {<<"SetComputeUnitLimit", "SetComputeUnitPrice">>
        \o (IF wsol THEN <<"CreateAccountWithSeed", "InitializeAccount">> ELSE <<>>)
        \o (IF ata THEN <<"CreateAssociatedTokenAccount">> ELSE <<>>)
        \o (IF swap THEN <<"Swap">> \o (IF wsol THEN <<"CloseAccount">> ELSE <<>>)
            ELSE <<>>) :
     ata \in BOOLEAN, swap \in BOOLEAN}

\* amount_specified of the call: amount_in in the unit get_swap_tx converts to.
AmountSpecified ==
    ui_amount_to_amount(req.swap.amount_in,
                        IF req.swap.token_in = req.swap.amm.coin_vault_mint
                        THEN NATIVE_DECIMALS ELSE req.swap.in_decimals)

\* C30: a transaction get_swap_tx signed has its instructions in the order
\* unit limit, unit price, create and initialize of the temporary account (for
\* a native trade), creation of the destination account, swap, close; its
\* close is never without the swap before it, and the temporary account is
\* funded with rent + amount_specified when token_in is the native mint and
\* with rent otherwise.
C30_InstructionOrderAndFunding ==
    (req.op = "get_swap_tx" /\ built.tx # <<>>) =>
        /\ KindsOf(built.tx) \in
               AllowedOrders(req.swap.token_in = native_mint
                             \/ req.swap.token_out = native_mint)
        /\ \A i \in DOMAIN built.tx :
               built.tx[i].op = "CreateAccountWithSeed" =>
                   built.tx[i].x = (IF req.swap.token_in = native_mint
                                    THEN req.swap.rent + AmountSpecified
                                    ELSE req.swap.rent)

\* The order half of C30 alone.
C30_InstructionOrder ==
    (req.op = "get_swap_tx" /\ built.tx # <<>>) =>
        KindsOf(built.tx) \in
            AllowedOrders(req.swap.token_in = native_mint
                          \/ req.swap.token_out = native_mint)

====
